---- MODULE Spec2Model ----
(***************************************************************************)
(* Owner-report worker of procoreAI: the polling loop, the claim of a      *)
(* pending owner_reports row, the report pipeline, the terminal status     *)
(* writes and the cleanup of expired reports.                              *)
(*                                                                         *)
(* Time is counted in hours.  A text (an error message, a storage path)    *)
(* is a sequence of string tokens; the SQL null is the empty sequence for  *)
(* a text and NullTime for a timestamp.  Every supabase call is one step:  *)
(* the database and the bucket serialise the calls of all the workers, and *)
(* a call either takes effect or returns an error and changes nothing.     *)
(***************************************************************************)
EXTENDS Integers, Sequences, FiniteSets, TLC

\* ---------------------------------------------------------------- bounds
\* how many times the clock advances in a run
MaxTicks == 2
\* the largest number of notes, and of photos, handed to validateReportData
MaxCount == 10

\* ------------------------------------------------------ program constants
CLEANUP_INTERVAL_HOURS == 1
REPORT_EXPIRY_DAYS == 5
MIN_NOTES_COUNT == 4
MIN_PHOTOS_COUNT == 5

ExpiryHours == REPORT_EXPIRY_DAYS * 24

\* ------------------------------------------------------------ the universe
\* the deployments explored: two workers racing for one report, and one worker
\* with a queue of two reports
Deployments ==
  {[workers |-> 2, reports |-> 1], [workers |-> 1, reports |-> 2]}
CreatedAts == {0, 1}
StartTime == ExpiryHours
\* the clock advances by whole retention windows
TickSteps == {ExpiryHours}
NotesCounts == {2, MIN_NOTES_COUNT}
PhotosCounts == {MIN_PHOTOS_COUNT - 1, 10}

NULL == <<>>
NullTime == -1
NoReport == 0

\* ------------------------------------------------------------------ texts
RECURSIVE ContainsAt(_, _, _)
ContainsAt(text, part, i) ==
  IF i + Len(part) - 1 > Len(text) THEN FALSE
  ELSE IF SubSeq(text, i, i + Len(part) - 1) = part THEN TRUE
  ELSE ContainsAt(text, part, i + 1)

\* part occurs in text (String.prototype.includes on the token level)
Contains(text, part) == part # <<>> /\ ContainsAt(text, part, 1)

NotLinkedMsg ==
  <<"Job is", "not linked", "to a Procore project.",
    "Link a Procore project to generate reports.">>

GenericMsg ==
  <<"Report generation unable to complete.", "Suggest manually creating report.">>

NotesMsg(n) ==
  <<"Insufficient daily log data (found", ToString(n), "notes, minimum",
    ToString(MIN_NOTES_COUNT), "required).", "Suggest manually creating report.">>

PhotosMsg(p) ==
  <<"Insufficient photos (found", ToString(p), "photos, minimum",
    ToString(MIN_PHOTOS_COUNT), "required).", "Suggest manually creating report.">>

DbErrorText == <<"connection to database lost">>
StorageErrorText == <<"bucket unavailable">>
CollaboratorErrorText(stage) == <<"request failed in", stage>>

Err(name, message) == [name |-> name, message |-> message]
NoError == Err("", NULL)

\* --------------------------------------------------------- reportValidation
validatePhotosFirst(notesCount, photosCount) ==
  IF photosCount < MIN_PHOTOS_COUNT
  THEN [valid |-> FALSE, error |-> PhotosMsg(photosCount),
        notesCount |-> notesCount, photosCount |-> photosCount]
  ELSE IF notesCount < MIN_NOTES_COUNT
  THEN [valid |-> FALSE, error |-> NotesMsg(notesCount),
        notesCount |-> notesCount, photosCount |-> photosCount]
  ELSE [valid |-> TRUE, error |-> NULL,
        notesCount |-> notesCount, photosCount |-> photosCount]

\* validateReportData(notes, images), on notes.length and images.length
validateReportData(notesCount, photosCount) ==
  IF notesCount < MIN_NOTES_COUNT
  THEN [valid |-> FALSE, error |-> NotesMsg(notesCount),
        notesCount |-> notesCount, photosCount |-> photosCount]
  ELSE IF photosCount < MIN_PHOTOS_COUNT
  THEN [valid |-> FALSE, error |-> PhotosMsg(photosCount),
        notesCount |-> notesCount, photosCount |-> photosCount]
  ELSE [valid |-> TRUE, error |-> NULL,
        notesCount |-> notesCount, photosCount |-> photosCount]

ValidationNeverThrows(validation) == FALSE

\* generateReport, step 3: if (!validation.valid && validation.error) throw
ValidationThrows(validation) == ~validation.valid /\ validation.error # NULL

\* ----------------------------------------------------------- generateReport
\* the steps of the try block, in the order of the code
Stages ==
  <<"notes", "images", "validation", "summary", "candidates", "selection",
    "spec", "download", "captions", "slides", "lookahead", "closing", "pptx">>

\* the steps that await a collaborator or the file system and may reject
ThrowingStages ==
  {"notes", "images", "summary", "selection", "captions", "slides",
   "lookahead", "closing", "pptx"}

\* where the run is made to fail: nowhere, before the try block, or in a step
FailPoints == {"none", "ensureDir"} \cup ThrowingStages

\* the failures the runs of the workers are made to meet: none, one outside the
\* try block, one before the validation and one after it
WorkerFailPoints == {"none", "ensureDir", "images", "captions"}

PptxFilename == "report.pptx"

\* a try block in which a step that rejects is passed over
RECURSIVE RunStagesPast(_, _, _, _, _)
RunStagesPast(i, failAt, notesCount, photosCount, trace) ==
  IF i > Len(Stages) THEN [trace |-> trace, thrown |-> NoError]
  ELSE
    LET s == Stages[i]
        t == Append(trace, s)
        validation == validateReportData(notesCount, photosCount)
    IN  IF s = failAt
        THEN [trace |-> RunStagesPast(i + 1, failAt, notesCount, photosCount, t).trace,
              thrown |-> Err("Error", CollaboratorErrorText(s))]
        ELSE IF s = "validation" /\ ValidationThrows(validation)
        THEN [trace |-> t, thrown |-> Err("ValidationError", validation.error)]
        ELSE RunStagesPast(i + 1, failAt, notesCount, photosCount, t)

RECURSIVE RunStages(_, _, _, _, _)
RunStages(i, failAt, notesCount, photosCount, trace) ==
  IF i > Len(Stages) THEN [trace |-> trace, thrown |-> NoError]
  ELSE
    LET s == Stages[i]
        t == Append(trace, s)
        validation == validateReportData(notesCount, photosCount)
    IN  IF s = failAt
        THEN [trace |-> t, thrown |-> Err("Error", CollaboratorErrorText(s))]
        ELSE IF s = "validation" /\ ValidationThrows(validation)
        THEN [trace |-> t, thrown |-> Err("ValidationError", validation.error)]
        ELSE RunStages(i + 1, failAt, notesCount, photosCount, t)

\* the catch block of generateReport: the error text of the failed result
GenerateReportError(thrown) ==
  IF thrown.name = "ValidationError" THEN thrown.message
  ELSE <<"Report generation failed:">> \o thrown.message

\* generateReport as a function of what its collaborators do.  rejected: the
\* promise rejects (ensureDir is outside the try block); otherwise result.
generateReport(failAt, notesCount, photosCount) ==
  IF failAt = "ensureDir"
  THEN [rejected |-> TRUE, thrown |-> Err("Error", <<"EACCES: mkdir output">>),
        trace |-> <<>>, validated |-> NULL,
        result |-> [success |-> FALSE, pptxFilename |-> "", error |-> NULL,
                    notesCount |-> 0, photosCount |-> 0]]
  ELSE
    LET run == RunStages(1, failAt, notesCount, photosCount, <<>>)
        validation == validateReportData(notesCount, photosCount)
        reached == \E i \in 1..Len(run.trace) : run.trace[i] = "validation"
    IN  [rejected |-> FALSE, thrown |-> NoError, trace |-> run.trace,
         validated |-> IF reached THEN validation.error ELSE NULL,
         result |->
           IF run.thrown = NoError
           THEN [success |-> TRUE, pptxFilename |-> PptxFilename, error |-> NULL,
                 notesCount |-> validation.notesCount,
                 photosCount |-> validation.photosCount]
           ELSE [success |-> FALSE, pptxFilename |-> "",
                 error |-> GenerateReportError(run.thrown),
                 notesCount |-> 0, photosCount |-> 0]]

\* ------------------------------------------------------------- reportWorker
\* uploadToStorage: `reports/${reportId}/${filename}`
StoragePath(reportId, filename) == <<"reports", ToString(reportId), filename>>

\* processJob: if (!result.success || !result.pptxPath || !result.pptxFilename)
ResultFails(result) == ~result.success \/ result.pptxFilename = ""

\* processJob: throw new Error(result.error || "Report generation failed")
ResultError(result) ==
  Err("Error", IF result.error # NULL THEN result.error
               ELSE <<"Report generation failed">>)

CatchMessageLeaks(error) == error.message

\* processJob, catch: the message handed to markJobFailed
CatchMessage(error) ==
  IF error.name = "ValidationError" THEN error.message ELSE GenericMsg

MarkCompletedThrowsOnSuccess(ok) == ok

\* markJobCompleted: if (error) throw
MarkCompletedThrows(ok) == ~ok

VARIABLES
  rows,         \* owner_reports: report id -> row
  linked,       \* jobs.procore_project_id is not null, per report
  storage,      \* the paths present in the owner-reports bucket
  now,          \* the clock, in hours
  ticks,        \* how often the clock has advanced
  pc,           \* per worker: where its loop stands
  report,       \* per worker: the row pollForPendingJob returned (NoReport: null)
  caught,       \* per worker: the error processJob's catch block holds
  hist,         \* per worker: the steps and status writes of the current processJob,
                \* and the storagePath uploadToStorage returned to it
  lastCleanup,  \* per worker: runWorker's lastCleanup
  expired,      \* per worker: the expiredReports rows left, the one in hand,
                \* the path storage.remove has deleted for it, and the reports
                \* whose deletion failed in this cleanup or the last one
  call          \* a call of a pure function on its own: its arguments and result

vars ==
  <<rows, linked, storage, now, ticks, pc, report, caught, hist, lastCleanup,
    expired, call>>

\* the worker processes and the rows of owner_reports of the deployment
Workers == DOMAIN pc
Reports == DOMAIN rows

NoHist == [stages |-> <<>>, validated |-> NULL, uploaded |-> NULL, writes |-> <<>>]

\* a status write as the history keeps it
Write(op, message, ok) == [op |-> op, message |-> message, ok |-> ok]

NoSweep == [left |-> {}, cur |-> NoReport, removed |-> NULL, failed |-> {}]

\* no call of a pure function on its own is under way
NoCall ==
  [notesCount |-> 0, photosCount |-> 0, returned |-> FALSE,
   result |-> [valid |-> FALSE, error |-> NULL, notesCount |-> 0,
               photosCount |-> 0]]

NewRow(createdAt) ==
  [status |-> "pending", error_message |-> NULL, pptx_path |-> NULL,
   created_at |-> createdAt, updated_at |-> createdAt,
   started_at |-> NullTime, completed_at |-> NullTime]

\* the workers start; the requested reports are pending rows
InitDeployment(d) ==
  /\ rows \in {[r \in 1..d.reports |-> NewRow(c[r])] :
                c \in [1..d.reports -> CreatedAts]}
  /\ linked \in [1..d.reports -> BOOLEAN]
  /\ storage = {}
  /\ now = StartTime
  /\ ticks = 0
  /\ pc = [w \in 1..d.workers |-> "poll"]
  /\ report = [w \in 1..d.workers |-> NoReport]
  /\ caught = [w \in 1..d.workers |-> NoError]
  /\ hist = [w \in 1..d.workers |-> NoHist]
  /\ lastCleanup = [w \in 1..d.workers |-> 0]
  /\ expired = [w \in 1..d.workers |-> NoSweep]
  /\ call = NoCall

Init == \E d \in Deployments : InitDeployment(d)

\* ------------------------------------------------------- the row updates
\* markJobProcessing: .update({status, started_at, updated_at}).eq("id", jobId)
MarkProcessingRow(row, t) ==
  [row EXCEPT !.status = "processing", !.started_at = t, !.updated_at = t]

\* markJobCompleted: .update({status, pptx_path, completed_at, updated_at})
MarkCompletedRow(row, pptxPath, t) ==
  [row EXCEPT !.status = "completed", !.pptx_path = pptxPath,
              !.completed_at = t, !.updated_at = t]

\* a markJobFailed that stores the message and leaves the status
MarkFailedRowPending(row, errorMessage, t) ==
  [row EXCEPT !.error_message = errorMessage, !.updated_at = t]

\* markJobFailed: .update({status, error_message, completed_at, updated_at})
MarkFailedRow(row, errorMessage, t) ==
  [row EXCEPT !.status = "failed", !.error_message = errorMessage,
              !.completed_at = t, !.updated_at = t]

\* cleanupExpiredReports: .update({pptx_path: null, updated_at})
ClearPathRow(row, t) == [row EXCEPT !.pptx_path = NULL, !.updated_at = t]

\* pollForPendingJob: .eq("status", "pending")
PendingReports == {r \in Reports : rows[r].status = "pending"}

\* pollForPendingJob: .order("created_at", {ascending: true}).limit(1); rows of
\* equal created_at come in the order the database likes
OldestPending ==
  {r \in PendingReports :
     \A q \in PendingReports : rows[r].created_at <= rows[q].created_at}

ExpiredReportsInclusive(cutoff) ==
  {[id |-> r, pptx_path |-> rows[r].pptx_path] :
     r \in {q \in Reports :
              /\ rows[q].status = "completed"
              /\ rows[q].pptx_path # NULL
              /\ rows[q].completed_at # NullTime
              /\ rows[q].completed_at <= cutoff}}

\* cleanupExpiredReports: .eq("status", "completed").not("pptx_path", "is", null)
\* .lt("completed_at", expiryDateStr), selecting id and pptx_path
ExpiredReports(cutoff) ==
  {[id |-> r, pptx_path |-> rows[r].pptx_path] :
     r \in {q \in Reports :
              /\ rows[q].status = "completed"
              /\ rows[q].pptx_path # NULL
              /\ rows[q].completed_at # NullTime
              /\ rows[q].completed_at < cutoff}}

\* ------------------------------------------------------------- the actions
\* runWorker, end of an iteration: const now = Date.now(); if (now - lastCleanup
\* >= CLEANUP_INTERVAL_MS) { await cleanupExpiredReports(); lastCleanup = now },
\* then the sleep of POLL_INTERVAL_MS.  cleanupExpiredReports never throws and
\* nothing reads lastCleanup while it runs, so lastCleanup takes `now` at once;
\* it is also the `new Date()` the cutoff of that cleanup is computed from.
LoopEnd(w) ==
  /\ report' = [report EXCEPT ![w] = NoReport]
  /\ hist' = [hist EXCEPT ![w] = NoHist]
  /\ IF now - lastCleanup[w] >= CLEANUP_INTERVAL_HOURS
     THEN /\ lastCleanup' = [lastCleanup EXCEPT ![w] = now]
          /\ pc' = [pc EXCEPT ![w] = "cleanup_query"]
     ELSE /\ pc' = [pc EXCEPT ![w] = "poll"]
          /\ UNCHANGED lastCleanup

\* runWorker: const report = await pollForPendingJob()
PollForPendingJob(w) ==
  /\ pc[w] = "poll"
  /\ \/ \* the select fails, or finds no row (PGRST116): null
        /\ \E ok \in BOOLEAN : ~ok \/ PendingReports = {}
        /\ LoopEnd(w)
     \/ \E r \in OldestPending :
          /\ report' = [report EXCEPT ![w] = r]
          /\ pc' = [pc EXCEPT ![w] = "process"]
          /\ hist' = [hist EXCEPT ![w] = NoHist]
          /\ UNCHANGED lastCleanup
  /\ UNCHANGED <<rows, linked, storage, now, ticks, caught, expired, call>>

\* processJob on a report whose job has no procore_project_id: markJobFailed
\* with the not-linked message, then return
ProcessJobNotLinked(w) ==
  /\ pc[w] = "process"
  /\ ~linked[report[w]]
  /\ \E ok \in BOOLEAN :
       /\ rows' = IF ok
                  THEN [rows EXCEPT ![report[w]] = MarkFailedRow(@, NotLinkedMsg, now)]
                  ELSE rows
       /\ hist' = [hist EXCEPT ![w].writes =
                     Append(@, Write("failed", NotLinkedMsg, ok))]
  /\ pc' = [pc EXCEPT ![w] = "done"]
  /\ UNCHANGED <<linked, storage, now, ticks, report, caught, lastCleanup,
                 expired, call>>

MarkJobProcessingUnlinked(w) ==
  /\ pc[w] = "process"
  /\ rows' = [rows EXCEPT ![report[w]] = MarkProcessingRow(@, now)]
  /\ pc' = [pc EXCEPT ![w] = "generate"]
  /\ UNCHANGED <<linked, storage, now, ticks, report, caught, hist, lastCleanup,
                 expired, call>>

\* processJob, first step of the try block: await markJobProcessing(reportId)
MarkJobProcessing(w) ==
  /\ pc[w] = "process"
  /\ linked[report[w]]
  /\ \/ /\ rows' = [rows EXCEPT ![report[w]] = MarkProcessingRow(@, now)]
        /\ pc' = [pc EXCEPT ![w] = "generate"]
        /\ UNCHANGED caught
     \/ /\ caught' = [caught EXCEPT ![w] =
                        Err("Error", <<"Failed to mark job as processing:">>
                                       \o DbErrorText)]
        /\ pc' = [pc EXCEPT ![w] = "catch"]
        /\ UNCHANGED rows
  /\ UNCHANGED <<linked, storage, now, ticks, report, hist, lastCleanup,
                 expired, call>>

\* processJob: result = await generateReport(...), then the check of the result
GenerateReportAt(w, failPoints) ==
  /\ pc[w] = "generate"
  /\ \E failAt \in failPoints, notesCount \in NotesCounts,
        photosCount \in PhotosCounts :
       LET g == generateReport(failAt, notesCount, photosCount) IN
         /\ hist' = [hist EXCEPT ![w].stages = @ \o g.trace,
                                 ![w].validated = g.validated]
         /\ IF g.rejected
            THEN /\ caught' = [caught EXCEPT ![w] = g.thrown]
                 /\ pc' = [pc EXCEPT ![w] = "catch"]
            ELSE IF ResultFails(g.result)
            THEN /\ caught' = [caught EXCEPT ![w] = ResultError(g.result)]
                 /\ pc' = [pc EXCEPT ![w] = "catch"]
            ELSE /\ pc' = [pc EXCEPT ![w] = "upload"]
                 /\ UNCHANGED caught
  /\ UNCHANGED <<rows, linked, storage, now, ticks, report, lastCleanup,
                 expired, call>>

\* processJob: result = await generateReport(...), with the failures the runs
\* of the workers are made to meet
GenerateReport(w) == GenerateReportAt(w, WorkerFailPoints)

UploadToStorageUnchecked(w) ==
  /\ pc[w] = "upload"
  /\ \/ /\ storage' = storage \cup {StoragePath(report[w], PptxFilename)}
        /\ hist' = [hist EXCEPT ![w].stages = Append(@, "upload"),
                                ![w].uploaded = StoragePath(report[w], PptxFilename)]
     \/ /\ hist' = [hist EXCEPT ![w].stages = Append(@, "upload")]
        /\ UNCHANGED storage
  /\ pc' = [pc EXCEPT ![w] = "mark_completed"]
  /\ UNCHANGED <<rows, linked, now, ticks, report, caught, lastCleanup, expired,
                 call>>

\* processJob: storagePath = await uploadToStorage(...), an upsert
UploadToStorage(w) ==
  /\ pc[w] = "upload"
  /\ \/ /\ storage' = storage \cup {StoragePath(report[w], PptxFilename)}
        /\ hist' = [hist EXCEPT ![w].stages = Append(@, "upload"),
                                ![w].uploaded = StoragePath(report[w], PptxFilename)]
        /\ pc' = [pc EXCEPT ![w] = "mark_completed"]
        /\ UNCHANGED caught
     \/ /\ caught' = [caught EXCEPT ![w] =
                        Err("Error", <<"Failed to upload to storage:">>
                                       \o StorageErrorText)]
        /\ hist' = [hist EXCEPT ![w].stages = Append(@, "upload")]
        /\ pc' = [pc EXCEPT ![w] = "catch"]
        /\ UNCHANGED storage
  /\ UNCHANGED <<rows, linked, now, ticks, report, lastCleanup, expired, call>>

\* processJob: await markJobCompleted(reportId, storagePath)
MarkJobCompleted(w) ==
  /\ pc[w] = "mark_completed"
  /\ LET path == hist[w].uploaded IN
     \E ok \in BOOLEAN :
       /\ rows' = IF ok
                  THEN [rows EXCEPT ![report[w]] = MarkCompletedRow(@, path, now)]
                  ELSE rows
       /\ hist' = [hist EXCEPT ![w].writes = Append(@, Write("completed", path, ok))]
       /\ IF MarkCompletedThrows(ok)
          THEN /\ caught' = [caught EXCEPT ![w] =
                               Err("Error", <<"Failed to mark job as completed:">>
                                              \o DbErrorText)]
               /\ pc' = [pc EXCEPT ![w] = "catch"]
          ELSE /\ pc' = [pc EXCEPT ![w] = "done"]
               /\ UNCHANGED caught
  /\ UNCHANGED <<linked, storage, now, ticks, report, lastCleanup, expired,
                 call>>

CatchAndExit(w) ==
  /\ pc[w] = "catch"
  /\ LET errorMessage == CatchMessage(caught[w]) IN
     \E ok \in BOOLEAN :
       /\ rows' = IF ok
                  THEN [rows EXCEPT ![report[w]] = MarkFailedRow(@, errorMessage, now)]
                  ELSE rows
       /\ hist' = [hist EXCEPT ![w].writes =
                     Append(@, Write("failed", errorMessage, ok))]
       /\ pc' = [pc EXCEPT ![w] = IF ok THEN "done" ELSE "exited"]
  /\ caught' = [caught EXCEPT ![w] = NoError]
  /\ UNCHANGED <<linked, storage, now, ticks, report, lastCleanup, expired,
                 call>>

\* processJob, catch block: await markJobFailed(reportId, errorMessage)
CatchAndMarkFailed(w) ==
  /\ pc[w] = "catch"
  /\ LET errorMessage == CatchMessage(caught[w]) IN
     \E ok \in BOOLEAN :
       /\ rows' = IF ok
                  THEN [rows EXCEPT ![report[w]] = MarkFailedRow(@, errorMessage, now)]
                  ELSE rows
       /\ hist' = [hist EXCEPT ![w].writes =
                     Append(@, Write("failed", errorMessage, ok))]
  /\ caught' = [caught EXCEPT ![w] = NoError]
  /\ pc' = [pc EXCEPT ![w] = "done"]
  /\ UNCHANGED <<linked, storage, now, ticks, report, lastCleanup, expired,
                 call>>

ProcessJobReturnsToPoll(w) ==
  /\ pc[w] = "done"
  /\ report' = [report EXCEPT ![w] = NoReport]
  /\ hist' = [hist EXCEPT ![w] = NoHist]
  /\ pc' = [pc EXCEPT ![w] = "poll"]
  /\ UNCHANGED <<rows, linked, storage, now, ticks, caught, lastCleanup,
                 expired, call>>

ProcessJobNotAwaited(w) ==
  /\ pc[w] \in {"generate", "upload", "mark_completed", "catch", "done"}
  /\ LoopEnd(w)
  /\ UNCHANGED <<rows, linked, storage, now, ticks, caught, expired, call>>

\* processJob has returned to runWorker
ProcessJobReturns(w) ==
  /\ pc[w] = "done"
  /\ LoopEnd(w)
  /\ UNCHANGED <<rows, linked, storage, now, ticks, caught, expired, call>>

\* the next round of the for loop over expiredReports, or the end of the loop
\* and the sleep of runWorker
CleanupContinue(w, left, failed) ==
  /\ expired' = [expired EXCEPT ![w] =
                   [left |-> left, cur |-> NoReport, removed |-> NULL,
                    failed |-> failed]]
  /\ pc' = [pc EXCEPT ![w] = IF left = {} THEN "poll" ELSE "cleanup_remove"]

\* cleanupExpiredReports: the select of the expired completed reports
CleanupQuery(w) ==
  /\ pc[w] = "cleanup_query"
  /\ \/ \* fetchError: return
        CleanupContinue(w, {}, {})
     \/ CleanupContinue(w, ExpiredReports(lastCleanup[w] - ExpiryHours), {})
  /\ UNCHANGED <<rows, linked, storage, now, ticks, report, caught, hist,
                 lastCleanup, call>>

CleanupRemoveUnchecked(w) ==
  /\ pc[w] = "cleanup_remove"
  /\ \E e \in expired[w].left :
       \/ /\ storage' = storage \ {e.pptx_path}
          /\ expired' = [expired EXCEPT ![w] =
                           [left |-> @.left \ {e}, cur |-> e.id,
                            removed |-> e.pptx_path, failed |-> @.failed]]
       \/ /\ expired' = [expired EXCEPT ![w] =
                           [left |-> @.left \ {e}, cur |-> e.id,
                            removed |-> NULL, failed |-> @.failed]]
          /\ UNCHANGED storage
  /\ pc' = [pc EXCEPT ![w] = "cleanup_update"]
  /\ UNCHANGED <<rows, linked, now, ticks, report, caught, hist, lastCleanup,
                 call>>

\* a remove whose deleteError ends the loop over expiredReports
CleanupRemoveAborts(w) ==
  /\ pc[w] = "cleanup_remove"
  /\ \E e \in expired[w].left :
       \/ /\ storage' = storage \ {e.pptx_path}
          /\ expired' = [expired EXCEPT ![w] =
                           [left |-> @.left \ {e}, cur |-> e.id,
                            removed |-> e.pptx_path, failed |-> @.failed]]
          /\ pc' = [pc EXCEPT ![w] = "cleanup_update"]
       \/ /\ CleanupContinue(w, {}, expired[w].failed \cup {e.id})
          /\ UNCHANGED storage
  /\ UNCHANGED <<rows, linked, now, ticks, report, caught, hist, lastCleanup,
                 call>>

\* cleanupExpiredReports: supabase.storage.remove([report.pptx_path])
CleanupRemove(w) ==
  /\ pc[w] = "cleanup_remove"
  /\ \E e \in expired[w].left :
       \/ /\ storage' = storage \ {e.pptx_path}
          /\ expired' = [expired EXCEPT ![w] =
                           [left |-> @.left \ {e}, cur |-> e.id,
                            removed |-> e.pptx_path, failed |-> @.failed]]
          /\ pc' = [pc EXCEPT ![w] = "cleanup_update"]
       \/ \* deleteError: continue
          /\ CleanupContinue(w, expired[w].left \ {e},
                             expired[w].failed \cup {e.id})
          /\ UNCHANGED storage
  /\ UNCHANGED <<rows, linked, now, ticks, report, caught, hist, lastCleanup,
                 call>>

\* cleanupExpiredReports: the update that clears pptx_path
CleanupUpdate(w) ==
  /\ pc[w] = "cleanup_update"
  /\ \E ok \in BOOLEAN :
       rows' = IF ok
               THEN [rows EXCEPT ![expired[w].cur] = ClearPathRow(@, now)]
               ELSE rows
  /\ CleanupContinue(w, expired[w].left, expired[w].failed)
  /\ UNCHANGED <<linked, storage, now, ticks, report, caught, hist,
                 lastCleanup, call>>

\* time passes
Tick ==
  /\ ticks < MaxTicks
  /\ \E d \in TickSteps : now' = now + d
  /\ ticks' = ticks + 1
  /\ UNCHANGED <<rows, linked, storage, pc, report, caught, hist, lastCleanup,
                 expired, call>>

Next ==
  \/ \E w \in Workers : PollForPendingJob(w)
  \/ \E w \in Workers : ProcessJobNotLinked(w)
  \/ \E w \in Workers : MarkJobProcessing(w)
  \/ \E w \in Workers : GenerateReport(w)
  \/ \E w \in Workers : UploadToStorage(w)
  \/ \E w \in Workers : MarkJobCompleted(w)
  \/ \E w \in Workers : CatchAndMarkFailed(w)
  \/ \E w \in Workers : ProcessJobReturns(w)
  \/ \E w \in Workers : CleanupQuery(w)
  \/ \E w \in Workers : CleanupRemove(w)
  \/ \E w \in Workers : CleanupUpdate(w)
  \/ Tick

Spec == Init /\ [][Next]_vars

\* ------------------------------------------------- the loop under fairness
\* the worker processes a deployment may run
WorkerIds == UNION {1..d.workers : d \in Deployments}

\* a step of the loop of worker w: the promise it awaits settles, or its sleep
\* ends, and its code runs to the next await
WorkerStep(w) ==
  /\ w \in Workers
  /\ \/ PollForPendingJob(w)
     \/ ProcessJobNotLinked(w)
     \/ MarkJobProcessing(w)
     \/ GenerateReport(w)
     \/ UploadToStorage(w)
     \/ MarkJobCompleted(w)
     \/ CatchAndMarkFailed(w)
     \/ ProcessJobReturns(w)
     \/ CleanupQuery(w)
     \/ CleanupRemove(w)
     \/ CleanupUpdate(w)

\* the deployment the loop of a worker is followed in: one worker and a queue
\* of two reports.  Nothing in the loop waits for another worker.
LoopDeployment == [workers |-> 1, reports |-> 2]

\* every call a worker awaits returns or fails, and every sleep ends
FairSpec ==
  /\ InitDeployment(LoopDeployment)
  /\ [][Next]_vars
  /\ \A w \in WorkerIds : WF_vars(WorkerStep(w))

\* ------------------------------------------------- the run of one report
\* one worker and one requested report; the run may fail in any of its steps
RunDeployment == [workers |-> 1, reports |-> 1]

GenerateReportAnywhere(w) == GenerateReportAt(w, FailPoints)

NextRun ==
  \/ \E w \in Workers : PollForPendingJob(w)
  \/ \E w \in Workers : ProcessJobNotLinked(w)
  \/ \E w \in Workers : MarkJobProcessing(w)
  \/ \E w \in Workers : GenerateReportAnywhere(w)
  \/ \E w \in Workers : UploadToStorage(w)
  \/ \E w \in Workers : MarkJobCompleted(w)
  \/ \E w \in Workers : CatchAndMarkFailed(w)
  \/ \E w \in Workers : ProcessJobReturns(w)
  \/ \E w \in Workers : CleanupQuery(w)
  \/ \E w \in Workers : CleanupRemove(w)
  \/ \E w \in Workers : CleanupUpdate(w)
  \/ Tick

RunSpec == InitDeployment(RunDeployment) /\ [][NextRun]_vars

\* ------------------------------------------- the cleanups as time goes on
\* a timestamp d hours further back, and no further than 0
Earlier(t, d) ==
  IF t = NullTime THEN NullTime ELSE IF t < d THEN 0 ELSE t - d

\* time passes while every worker sleeps, the clock having reached its bound:
\* the timestamps move back instead of the clock moving on.  The loop compares
\* lastCleanup with the clock, and a cleanup compares completed_at with an
\* expiry date that lies ExpiryHours behind the clock, so a timestamp that
\* stops at 0 compares as it would further back.
Elapse ==
  /\ ticks = MaxTicks
  /\ \A w \in Workers : pc[w] = "poll"
  /\ \E d \in TickSteps :
       /\ rows' = [r \in Reports |->
                     [rows[r] EXCEPT !.created_at = Earlier(@, d),
                                     !.updated_at = Earlier(@, d),
                                     !.started_at = Earlier(@, d),
                                     !.completed_at = Earlier(@, d)]]
       /\ lastCleanup' = [w \in Workers |-> Earlier(lastCleanup[w], d)]
  /\ UNCHANGED <<linked, storage, now, ticks, pc, report, caught, hist, expired,
                 call>>

\* the select of a cleanup returns the expired reports
CleanupQuerySucceeds(w) ==
  /\ CleanupQuery(w)
  /\ expired'[w].left = ExpiredReports(lastCleanup[w] - ExpiryHours)

\* the remove of a cleanup deletes the file
CleanupRemoveSucceeds(w) == CleanupRemove(w) /\ pc'[w] = "cleanup_update"

\* the update of a cleanup clears the path
CleanupUpdateSucceeds(w) ==
  CleanupUpdate(w) /\ rows'[expired[w].cur].pptx_path = NULL

\* Two workers and one requested report.  Worker 1 has run the report to
\* completed and has made its first cleanup.  The first poll of worker 2
\* either failed, so that it made its first cleanup too, or returned the report
\* while it was pending, and worker 2 has not gone on since.  The job of the
\* report may have lost its Procore project meanwhile.
InitRetention ==
  /\ rows = <<MarkCompletedRow(MarkProcessingRow(NewRow(0), StartTime),
                               StoragePath(1, PptxFilename), StartTime)>>
  /\ linked \in {<<TRUE>>, <<FALSE>>}
  /\ storage = {StoragePath(1, PptxFilename)}
  /\ now = StartTime
  /\ ticks = 0
  /\ \/ /\ pc = <<"poll", "poll">>
        /\ report = <<NoReport, NoReport>>
        /\ lastCleanup = <<StartTime, StartTime>>
     \/ /\ pc = <<"poll", "process">>
        /\ report = <<NoReport, 1>>
        /\ lastCleanup = <<StartTime, 0>>
  /\ caught = <<NoError, NoError>>
  /\ hist = <<NoHist, NoHist>>
  /\ expired = <<NoSweep, NoSweep>>
  /\ call = NoCall

NextRetention ==
  \/ Next
  \/ Elapse

\* every call a worker awaits returns or fails and every sleep ends, time goes
\* on, and the calls of the cleanup do not fail for ever
RetentionSpec ==
  /\ InitRetention
  /\ [][NextRetention]_vars
  /\ SF_vars(Tick \/ Elapse)
  /\ \A w \in WorkerIds :
       /\ WF_vars(WorkerStep(w))
       /\ SF_vars(w \in Workers /\ CleanupQuerySucceeds(w))
       /\ SF_vars(w \in Workers /\ CleanupRemoveSucceeds(w))
       /\ SF_vars(w \in Workers /\ CleanupUpdateSucceeds(w))

\* ------------------------------------------ the cleanup at the expiry date
\* a worker starts when reports of earlier runs are in the table; its first
\* cleanup computes its expiry date from SweepNow
SweepNow == 2 * ExpiryHours
SweepCutoff == SweepNow - ExpiryHours

\* the completed_at of the reports of earlier runs: just before the expiry
\* date of the first cleanup, on it, and just after it
CompletedAts == {SweepCutoff - 1, SweepCutoff, SweepCutoff + 1}

\* the row of a report that a run started at t - 1 and completed at t
CompletedRow(r, t) ==
  MarkCompletedRow(MarkProcessingRow(NewRow(0), t - 1),
                   StoragePath(r, PptxFilename), t)

SweepRows(r) ==
  {NewRow(c) : c \in CreatedAts} \cup {CompletedRow(r, t) : t \in CompletedAts}

InitSweep ==
  /\ rows \in {f \in [1..LoopDeployment.reports ->
                         UNION {SweepRows(r) : r \in 1..LoopDeployment.reports}] :
                 \A r \in 1..LoopDeployment.reports : f[r] \in SweepRows(r)}
  /\ linked \in [1..LoopDeployment.reports -> BOOLEAN]
  /\ storage = {rows[r].pptx_path : r \in {q \in 1..LoopDeployment.reports :
                                             rows[q].pptx_path # NULL}}
  /\ now = SweepNow
  /\ ticks = 0
  /\ pc = [w \in 1..LoopDeployment.workers |-> "poll"]
  /\ report = [w \in 1..LoopDeployment.workers |-> NoReport]
  /\ caught = [w \in 1..LoopDeployment.workers |-> NoError]
  /\ hist = [w \in 1..LoopDeployment.workers |-> NoHist]
  /\ lastCleanup = [w \in 1..LoopDeployment.workers |-> 0]
  /\ expired = [w \in 1..LoopDeployment.workers |-> NoSweep]
  /\ call = NoCall

SweepSpec == InitSweep /\ [][Next]_vars

\* ------------------------------------------- validateReportData on its own
\* no worker runs and no report is requested
Idle ==
  /\ rows = <<>>
  /\ linked = <<>>
  /\ storage = {}
  /\ now = StartTime
  /\ ticks = 0
  /\ pc = <<>>
  /\ report = <<>>
  /\ caught = <<>>
  /\ hist = <<>>
  /\ lastCleanup = <<>>
  /\ expired = <<>>

\* a caller holds notesCount notes and photosCount images
InitValidate ==
  /\ Idle
  /\ \E n \in 0..MaxCount, p \in 0..MaxCount :
       call = [NoCall EXCEPT !.notesCount = n, !.photosCount = p]

\* the caller calls validateReportData(notes, images)
Validate ==
  /\ ~call.returned
  /\ call' = [call EXCEPT
               !.returned = TRUE,
               !.result = validateReportData(call.notesCount, call.photosCount)]
  /\ UNCHANGED <<rows, linked, storage, now, ticks, pc, report, caught, hist,
                 lastCleanup, expired>>

SpecValidate == InitValidate /\ [][Validate]_vars

\* ------------------------------------------------- imageCandidateSelection
\* A date "YYYY-MM-DD" is the text <<year, month, day>>, and an ISO timestamp
\* carries the hour behind its date.  An image without a size has NoSize, a
\* suggestion without a priority has NoPriority.
MaxPool == 3
MaxSuggestions == 2
MaxCandidates == 3

DateLen == 3
NoSize == -1
NoPriority == -1
DefaultPriority == 999

\* a.localeCompare(b) < 0 on texts of numbers; the empty text comes first
RECURSIVE TextBefore(_, _)
TextBefore(a, b) ==
  IF b = <<>> THEN FALSE
  ELSE IF a = <<>> THEN TRUE
  ELSE IF Head(a) # Head(b) THEN Head(a) < Head(b)
  ELSE TextBefore(Tail(a), Tail(b))

getImageDate(img) ==
  IF Len(img.log_date) >= DateLen THEN SubSeq(img.log_date, 1, DateLen)
  ELSE IF Len(img.created_at) >= DateLen THEN SubSeq(img.created_at, 1, DateLen)
  ELSE NULL

\* the map from each date to the images of that date, in the order of images
groupImagesByDate(images) ==
  [d \in {getImageDate(images[i]) : i \in DOMAIN images} \ {NULL} |->
     SelectSeq(images, LAMBDA img : getImageDate(img) = d)]

IsLeapYear(year) ==
  year % 4 = 0 /\ (year % 100 # 0 \/ year % 400 = 0)

DaysInMonth(year, month) ==
  IF month = 2 THEN (IF IsLeapYear(year) THEN 29 ELSE 28)
  ELSE IF month \in {4, 6, 9, 11} THEN 30
  ELSE 31

\* shiftDate with the day taken as it stands, no carry into the month
shiftDateNoCarry(dateStr, offsetDays) ==
  <<dateStr[1], dateStr[2], dateStr[3] + offsetDays>>

\* Date.UTC carries a day before the first or behind the last of the month
\* into the neighbouring month, for an offset of less than a month
shiftDate(dateStr, offsetDays) ==
  LET year == dateStr[1]
      month == dateStr[2]
      day == dateStr[3] + offsetDays
  IN IF day < 1
       THEN IF month = 1 THEN <<year - 1, 12, DaysInMonth(year - 1, 12) + day>>
            ELSE <<year, month - 1, DaysInMonth(year, month - 1) + day>>
     ELSE IF day > DaysInMonth(year, month)
       THEN IF month = 12 THEN <<year + 1, 1, day - DaysInMonth(year, month)>>
            ELSE <<year, month + 1, day - DaysInMonth(year, month)>>
     ELSE <<year, month, day>>

\* the comparator of finalizeSelection
FinalBefore(a, b) ==
  IF getImageDate(a) # getImageDate(b)
    THEN TextBefore(getImageDate(a), getImageDate(b))
    ELSE a.id < b.id

\* the comparator of sortedPhotoDays
PhotoDayBefore(a, b) ==
  LET pa == IF a.priority = NoPriority THEN DefaultPriority ELSE a.priority
      pb == IF b.priority = NoPriority THEN DefaultPriority ELSE b.priority
  IN IF pa # pb THEN pa < pb ELSE TextBefore(a.date, b.date)

\* description.trim(): the text without its blanks
Trim(text) == SelectSeq(text, LAMBDA token : token # " ")

HasDescription(img) == Len(Trim(img.description)) > 0

\* the comparator of pass 2
RemainingBefore(a, b) ==
  IF HasDescription(a) /\ ~HasDescription(b) THEN TRUE
  ELSE IF ~HasDescription(a) /\ HasDescription(b) THEN FALSE
  ELSE (IF b.size = NoSize THEN 0 ELSE b.size)
         - (IF a.size = NoSize THEN 0 ELSE a.size) < 0

\* the comparator of a sort: of finalizeSelection, of sortedPhotoDays, of the
\* remaining images of pass 2
ComesBefore(order, a, b) ==
  CASE order = "final" -> FinalBefore(a, b)
    [] order = "photoDays" -> PhotoDayBefore(a, b)
    [] order = "remaining" -> RemainingBefore(a, b)

\* Array.prototype.sort, which is stable: s[i] goes behind the elements that
\* come before it and behind the earlier elements that compare equal to it
Sort(s, order) ==
  LET rank(i) ==
        Cardinality({j \in DOMAIN s :
                       \/ ComesBefore(order, s[j], s[i])
                       \/ ~ComesBefore(order, s[i], s[j]) /\ j < i}) + 1
  IN [k \in DOMAIN s |-> s[CHOOSE i \in DOMAIN s : rank(i) = k]]

\* finalizeSelection that returns the images in the order of their selection
finalizeUnsorted(selected) == selected

finalizeSelection(selected) == Sort(selected, "final")

Ids(selected) == {selected[i].id : i \in DOMAIN selected}

\* the images pass 1 comes by, in its order: for each day of sortedPhotoDays
\* those of the day, of the day before and of the day after
RECURSIVE Visited(_, _)
Visited(byDate, days) ==
  IF days = <<>> THEN <<>>
  ELSE LET baseDate == Head(days).date
           variants == <<baseDate, shiftDate(baseDate, -1), shiftDate(baseDate, 1)>>
           imgs(d) == IF d \in DOMAIN byDate THEN byDate[d] ELSE <<>>
       IN imgs(variants[1]) \o imgs(variants[2]) \o imgs(variants[3])
            \o Visited(byDate, Tail(days))

\* a pass 1 that does not ask whether an image is selected already
RECURSIVE PassOneRepeats(_, _, _)
PassOneRepeats(visit, selected, maxCandidates) ==
  IF visit = <<>> THEN [selected |-> selected, full |-> FALSE]
  ELSE IF Len(selected) + 1 >= maxCandidates
    THEN [selected |-> Append(selected, Head(visit)), full |-> TRUE]
  ELSE PassOneRepeats(Tail(visit), Append(selected, Head(visit)), maxCandidates)

\* the loops of pass 1: full when the return inside them is taken
RECURSIVE PassOne(_, _, _)
PassOne(visit, selected, maxCandidates) ==
  IF visit = <<>> THEN [selected |-> selected, full |-> FALSE]
  ELSE IF Head(visit).id \in Ids(selected)
    THEN PassOne(Tail(visit), selected, maxCandidates)
  ELSE IF Len(selected) + 1 >= maxCandidates
    THEN [selected |-> Append(selected, Head(visit)), full |-> TRUE]
  ELSE PassOne(Tail(visit), Append(selected, Head(visit)), maxCandidates)

\* the loop of pass 2 over the sorted remaining images
RECURSIVE PassTwo(_, _, _)
PassTwo(remaining, selected, maxCandidates) ==
  IF remaining = <<>> THEN selected
  ELSE IF Len(selected) + 1 >= maxCandidates
    THEN Append(selected, Head(remaining))
  ELSE PassTwo(Tail(remaining), Append(selected, Head(remaining)), maxCandidates)

\* a run of selectCandidateImagesForMonth: the suggestions in the order pass 1
\* takes them, what pass 1 selected, what pass 2 added behind it, and what is
\* returned
Selection(images, photoDays, maxCandidates, minCandidates) ==
  IF Len(images) = 0
  THEN [days |-> <<>>, first |-> <<>>, fill |-> <<>>, result |-> <<>>]
  ELSE
    LET byDate == groupImagesByDate(images)
        sortedPhotoDays == Sort(photoDays, "photoDays")
        one == PassOne(Visited(byDate, sortedPhotoDays), <<>>, maxCandidates)
        remaining ==
          Sort(SelectSeq(images, LAMBDA img : img.id \notin Ids(one.selected)),
               "remaining")
        two == IF ~one.full /\ Len(one.selected) < minCandidates
                 THEN PassTwo(remaining, one.selected, maxCandidates)
                 ELSE one.selected
    IN [days |-> sortedPhotoDays,
        first |-> one.selected,
        fill |-> SubSeq(two, Len(one.selected) + 1, Len(two)),
        result |-> finalizeSelection(two)]

selectCandidateImagesForMonth(images, photoDays, maxCandidates, minCandidates) ==
  Selection(images, photoDays, maxCandidates, minCandidates).result

\* the images of a month that the calls draw their pools from
Image(id, logDate, createdAt, description, size) ==
  [id |-> id, log_date |-> logDate, created_at |-> createdAt,
   description |-> description, size |-> size]

Images ==
  {Image(1, NULL, <<2025, 11, 30, 8>>, <<"crane">>, 1),
   Image(2, <<2025, 12, 1>>, <<2025, 12, 5, 8>>, NULL, 2),
   Image(3, NULL, <<2025, 12, 1, 9>>, <<" ">>, NoSize),
   Image(4, NULL, <<2025, 12, 2, 7>>, <<"slab">>, 2),
   Image(5, NULL, <<2025>>, <<"rebar">>, 2),
   Image(6, NULL, <<2025, 12, 3, 7>>, NULL, 2)}

PhotoDays ==
  {[date |-> <<2025, 11, 30>>, priority |-> NoPriority],
   [date |-> <<2025, 12, 1>>, priority |-> 1],
   [date |-> <<2025, 12, 3>>, priority |-> 1]}

\* the lists of up to n different elements of S
Lists(S, n) ==
  UNION {{s \in [1..k -> S] : \A i, j \in 1..k : s[i] = s[j] => i = j} :
           k \in 0..n}

NoSelection == [days |-> <<>>, first |-> <<>>, fill |-> <<>>, result |-> <<>>]

\* a caller holds the images of a fetch, which have different ids, and the
\* suggested photo days
InitSelect ==
  /\ Idle
  /\ \E images \in Lists(Images, MaxPool), photoDays \in Lists(PhotoDays, MaxSuggestions),
        maxCandidates \in 0..MaxCandidates, minCandidates \in 0..MaxCandidates :
       call = [images |-> images, photoDays |-> photoDays,
               maxCandidates |-> maxCandidates, minCandidates |-> minCandidates,
               returned |-> FALSE, selection |-> NoSelection]

\* the caller calls selectCandidateImagesForMonth(images, photoDays, options)
Select ==
  /\ ~call.returned
  /\ call' = [call EXCEPT
               !.returned = TRUE,
               !.selection = Selection(call.images, call.photoDays,
                                       call.maxCandidates, call.minCandidates)]
  /\ UNCHANGED <<rows, linked, storage, now, ticks, pc, report, caught, hist,
                 lastCleanup, expired>>

SpecSelect == InitSelect /\ [][Select]_vars

\* ------------------------------------------- generateReport and its caller
\* What generateReport does as a function of its caller and its collaborators:
\* the onProgress the caller passes, what getMostRecentLookahead answers, the
\* step in which a collaborator rejects, the notes and the images fetched, and
\* how many of the images of the report were downloaded.
MaxPhotos == 2

\* the steps that begin with log(step, ...): every step but the closing slide
Announced == {Stages[i] : i \in 1..Len(Stages)} \ {"closing"}

\* the steps that end with log(step, ...)
Reported ==
  {"notes", "images", "summary", "candidates", "selection", "download",
   "captions", "pptx"}

\* the messages of the lookahead step after its first one
LookaheadNotices == {"found", "placeholder", "error"}

\* the calls of log in the try block: <<step, "start">> before the work of a
\* step, <<step, "done">> after it, and the notices of the lookahead step
LogCalls ==
  {<<s, "start">> : s \in Announced} \cup {<<s, "done">> : s \in Reported}
    \cup {<<"lookahead", n>> : n \in LookaheadNotices}

\* an onProgress is the set of the calls in which it throws; opts.onProgress ||
\* (() => {}) makes a missing one the sink that throws in none
NoOpSink == {}
Sinks == {NoOpSink, LogCalls} \cup {{c} : c \in LogCalls}

SinkErrorText == <<"onProgress failed">>

\* log(step, message): the call returns, or the error of the sink is thrown in
\* the try block the call stands in
LogThrows(sink, step, notice) == <<step, notice>> \in sink

\* what getMostRecentLookahead does: resolves to a lookahead, resolves to
\* null, or rejects
Fetches == {"found", "none", "rejects"}

Placeholder == [type |-> "lookahead", placeholder |-> TRUE]
Schedule == [type |-> "lookahead", placeholder |-> FALSE]
Slide(type) == [type |-> type, placeholder |-> FALSE]

\* generateReport, the inner try/catch of the lookahead step: the slide pushed
\* to allSlides, or the error the log of the catch block throws
LookaheadSlide(sink, fetch) ==
  LET innerThrows ==
        \/ fetch = "rejects"
        \/ fetch = "found" /\ LogThrows(sink, "lookahead", "found")
        \/ fetch = "none" /\ LogThrows(sink, "lookahead", "placeholder")
  IN  IF ~innerThrows
      THEN [slide |-> IF fetch = "found" THEN Schedule ELSE Placeholder,
            thrown |-> NoError]
      ELSE IF LogThrows(sink, "lookahead", "error")
      THEN [slide |-> NULL, thrown |-> Err("Error", SinkErrorText)]
      ELSE [slide |-> Placeholder, thrown |-> NoError]

\* the photo slides: one for each downloaded image
PhotoSlides(n) == [i \in 1..n |-> Slide("photo")]

\* the try block with its calls of log.  run.trace: the steps whose work was
\* begun; run.slides: allSlides; run.thrown: what the catch block receives.
RECURSIVE RunStagesLogged(_, _, _)
RunStagesLogged(i, env, run) ==
  IF i > Len(Stages) THEN run
  ELSE
    LET s == Stages[i]
        validation == validateReportData(env.notesCount, env.photosCount)
        begun == [run EXCEPT !.trace = Append(@, s)]
        lookahead == LookaheadSlide(env.sink, env.fetch)
        worked ==
          IF s = "slides"
          THEN [begun EXCEPT !.slides =
                  <<Slide("summary")>> \o PhotoSlides(env.downloaded)]
          ELSE IF s = "lookahead" /\ lookahead.thrown = NoError
          THEN [begun EXCEPT !.slides = Append(@, lookahead.slide)]
          ELSE IF s = "closing"
          THEN [begun EXCEPT !.slides = Append(@, Slide("closing"))]
          ELSE begun
    IN  IF s \in Announced /\ LogThrows(env.sink, s, "start")
        THEN [run EXCEPT !.thrown = Err("Error", SinkErrorText)]
        ELSE IF s = env.failAt
        THEN [begun EXCEPT !.thrown = Err("Error", CollaboratorErrorText(s))]
        ELSE IF s = "validation" /\ ValidationThrows(validation)
        THEN [begun EXCEPT !.thrown = Err("ValidationError", validation.error)]
        ELSE IF s = "lookahead" /\ lookahead.thrown # NoError
        THEN [begun EXCEPT !.thrown = lookahead.thrown]
        ELSE IF s \in Reported /\ LogThrows(env.sink, s, "done")
        THEN [worked EXCEPT !.thrown = Err("Error", SinkErrorText)]
        ELSE RunStagesLogged(i + 1, env, worked)

NoRun == [trace |-> <<>>, slides |-> <<>>, thrown |-> NoError]

\* generateReport as its caller sees it.  rejected: the promise rejects
\* (ensureDir is outside the try block); otherwise it resolves to result.
\* slides: what assembleSlidesPresentation received, if it was called.
generateReportWith(env) ==
  IF env.failAt = "ensureDir"
  THEN [rejected |-> TRUE, trace |-> <<>>, slides |-> <<>>,
        result |-> [success |-> FALSE, pptxFilename |-> "", error |-> NULL]]
  ELSE
    LET run == RunStagesLogged(1, env, NoRun) IN
      [rejected |-> FALSE, trace |-> run.trace, slides |-> run.slides,
       result |->
         IF run.thrown = NoError
         THEN [success |-> TRUE, pptxFilename |-> PptxFilename, error |-> NULL]
         ELSE [success |-> FALSE, pptxFilename |-> "",
               error |-> GenerateReportError(run.thrown)]]

\* processJob for what generateReport gave it: the status it asks the table to
\* store
FinalStatus(g) ==
  IF g.rejected \/ ResultFails(g.result) THEN "failed" ELSE "completed"

\* the callers and the collaborators a call of generateReport may meet
Envs ==
  [sink : Sinks, fetch : Fetches, failAt : FailPoints,
   notesCount : NotesCounts, photosCount : PhotosCounts,
   downloaded : 0..MaxPhotos]

NoOutcome ==
  [rejected |-> FALSE, trace |-> <<>>, slides |-> <<>>,
   result |-> [success |-> FALSE, pptxFilename |-> "", error |-> NULL]]

\* a caller is about to call generateReport
InitPipeline ==
  /\ Idle
  /\ \E env \in Envs : call = [env |-> env, returned |-> FALSE, out |-> NoOutcome]

\* the caller calls generateReport(projectId, projectName, month, options)
Pipeline ==
  /\ ~call.returned
  /\ call' = [call EXCEPT !.returned = TRUE,
                          !.out = generateReportWith(call.env)]
  /\ UNCHANGED <<rows, linked, storage, now, ticks, pc, report, caught, hist,
                 lastCleanup, expired>>

SpecPipeline == InitPipeline /\ [][Pipeline]_vars

\* ------------------------------------------- the final selection of images
\* Steps 5 to 7 of generateReport: the candidates of the month, the ids the
\* model of selectImagesFromMetadata answers with, and the images of the
\* report spec.  An answer is what JSON.parse made of the message: its
\* selected_ids is an array or not, and an element of it is a number or not.
MaxReply == 3
MaxSelected == 2

Number(n) == [number |-> TRUE, value |-> n]
NotANumber(n) == [number |-> FALSE, value |-> n]

Reply(ids) == [array |-> TRUE, ids |-> ids]
NotAnArray == [array |-> FALSE, ids |-> <<>>]

selectImagesUnfiltered(candidates, maxImages, reply) ==
  IF Len(candidates) = 0 THEN <<>>
  ELSE
    LET numbers == SelectSeq(IF reply.array THEN reply.ids ELSE <<>>,
                             LAMBDA id : id.number)
    IN  [i \in DOMAIN numbers |-> numbers[i].value]

\* selectImagesFromMetadata for the answer of the model: the elements of
\* selected_ids that are numbers and ids of candidates, in their order.
\* maxImages goes into the prompt only.
selectImagesFromMetadata(candidates, maxImages, reply) ==
  IF Len(candidates) = 0 THEN <<>>
  ELSE
    LET numbers == SelectSeq(IF reply.array THEN reply.ids ELSE <<>>,
                             LAMBDA id : id.number)
        ids == [i \in DOMAIN numbers |-> numbers[i].value]
        candidateIdSet == {candidates[i].id : i \in DOMAIN candidates}
    IN  SelectSeq(ids, LAMBDA id : id \in candidateIdSet)

\* filterImagesByIds: imageById keeps the last image of an id; one image is
\* pushed for every element of ids that is a key of it
filterImagesByIds(images, ids) ==
  LET imageById ==
        [id \in Ids(images) |->
           images[CHOOSE i \in DOMAIN images :
                    /\ images[i].id = id
                    /\ \A j \in DOMAIN images : images[j].id = id => j <= i]]
      known == SelectSeq(ids, LAMBDA id : id \in DOMAIN imageById)
  IN  [i \in DOMAIN known |-> imageById[known[i]]]

\* img.created_at.slice(0, 10)
CreatedDate(img) ==
  IF Len(img.created_at) >= DateLen THEN SubSeq(img.created_at, 1, DateLen)
  ELSE img.created_at

\* buildReportSpec(...).images
ReportImages(allImages, selectedIds) ==
  LET selectedImages == filterImagesByIds(allImages, selectedIds) IN
    [i \in DOMAIN selectedImages |->
       LET img == selectedImages[i] IN
         [id |-> img.id,
          date |-> IF getImageDate(img) # NULL THEN getImageDate(img)
                   ELSE CreatedDate(img),
          description |-> img.description]]

\* generateReport, step 5: minCandidates: 20
MIN_CANDIDATES == 20

\* the first k images of the month, by id
Fetched(k) == [i \in 1..k |-> CHOOSE img \in Images : img.id = i]

\* the answers of the model: up to MaxReply elements, each a number (the id of
\* an image of the pool, or one beyond the pool) or a text
Replies ==
  {NotAnArray} \cup
  {Reply(ids) : ids \in UNION {[1..k -> {Number(n) : n \in 1..(MaxPool + 1)}
                                         \cup {NotANumber(1)}] :
                                 k \in 0..MaxReply}}

NoRanking == [candidates |-> <<>>, selectedIds |-> <<>>, images |-> <<>>]

\* generateReport has fetched the images and the summary of the month
InitRank ==
  /\ Idle
  /\ \E k \in 0..MaxPool, photoDays \in Lists(PhotoDays, 1),
        maxCandidates \in {1, MaxCandidates},
        maxSelectedImages \in {1, MaxSelected}, reply \in Replies :
       call = [images |-> Fetched(k), photoDays |-> photoDays,
               maxCandidates |-> maxCandidates,
               maxSelectedImages |-> maxSelectedImages, reply |-> reply,
               returned |-> FALSE, ranking |-> NoRanking]

\* generateReport, steps 5 to 7: selectCandidateImagesForMonth,
\* selectImagesFromMetadata, buildReportSpec
Rank ==
  /\ ~call.returned
  /\ LET candidates ==
           selectCandidateImagesForMonth(call.images, call.photoDays,
                                         call.maxCandidates, MIN_CANDIDATES)
         selectedIds ==
           selectImagesFromMetadata(candidates, call.maxSelectedImages,
                                    call.reply)
     IN  call' = [call EXCEPT
                   !.returned = TRUE,
                   !.ranking = [candidates |-> candidates,
                                selectedIds |-> selectedIds,
                                images |-> ReportImages(call.images, selectedIds)]]
  /\ UNCHANGED <<rows, linked, storage, now, ticks, pc, report, caught, hist,
                 lastCleanup, expired>>

SpecRank == InitRank /\ [][Rank]_vars

\* ------------------------------------------- the suggestions of the summary
\* The photo days come from the model that summarises the notes: a day may be
\* listed more than once, the days of two suggestions may be neighbours, and a
\* priority is any number the model wrote.
Suggestions ==
  PhotoDays \cup
  {[date |-> <<2025, 12, 1>>, priority |-> 1000],
   [date |-> <<2025, 11, 30>>, priority |-> DefaultPriority]}

\* a caller holds images of the month in any order and up to MaxSuggestions
\* suggestions
InitSuggest ==
  /\ Idle
  /\ \E images \in Lists({img \in Images : img.id <= MaxPool}, MaxPool),
        k \in 0..MaxSuggestions,
        maxCandidates \in 1..MaxCandidates,
        minCandidates \in {0, MIN_CANDIDATES} :
       \E photoDays \in [1..k -> Suggestions] :
         call = [images |-> images, photoDays |-> photoDays,
                 maxCandidates |-> maxCandidates,
                 minCandidates |-> minCandidates,
                 returned |-> FALSE, selection |-> NoSelection]

SpecSuggest == InitSuggest /\ [][Select]_vars

\* ------------------------------------------- the loop when the table answers
\* The selects and the updates of owner_reports return without an error,
\* except the terminal status writes (markJobCompleted, markJobFailed) on the
\* reports of `stuck`, which return an error every time.  The pipeline and the
\* bucket go on as they like.

\* the outcome of the status write the step has made
WriteMade(w) == hist'[w].writes[Len(hist'[w].writes)]

\* pollForPendingJob returns the oldest pending report if there is one
PollAnswers(w) ==
  /\ PollForPendingJob(w)
  /\ PendingReports # {} => report'[w] # NoReport

NotLinkedWrites(w, stuck) ==
  /\ ProcessJobNotLinked(w)
  /\ WriteMade(w).ok <=> report[w] \notin stuck

MarkProcessingWrites(w) == MarkJobProcessing(w) /\ pc'[w] = "generate"

MarkCompletedWrites(w, stuck) ==
  /\ MarkJobCompleted(w)
  /\ WriteMade(w).ok <=> report[w] \notin stuck

MarkFailedWrites(w, stuck) ==
  /\ CatchAndMarkFailed(w)
  /\ WriteMade(w).ok <=> report[w] \notin stuck

\* a step of the loop of worker w
AnsweredStep(w, stuck) ==
  /\ w \in Workers
  /\ \/ PollAnswers(w)
     \/ NotLinkedWrites(w, stuck)
     \/ MarkProcessingWrites(w)
     \/ GenerateReport(w)
     \/ UploadToStorage(w)
     \/ MarkCompletedWrites(w, stuck)
     \/ MarkFailedWrites(w, stuck)
     \/ ProcessJobReturns(w)
     \/ CleanupQuerySucceeds(w)
     \/ CleanupRemove(w)
     \/ CleanupUpdateSucceeds(w)

NextAnswered(stuck) ==
  \/ \E w \in Workers : PollAnswers(w)
  \/ \E w \in Workers : NotLinkedWrites(w, stuck)
  \/ \E w \in Workers : MarkProcessingWrites(w)
  \/ \E w \in Workers : GenerateReport(w)
  \/ \E w \in Workers : UploadToStorage(w)
  \/ \E w \in Workers : MarkCompletedWrites(w, stuck)
  \/ \E w \in Workers : MarkFailedWrites(w, stuck)
  \/ \E w \in Workers : ProcessJobReturns(w)
  \/ \E w \in Workers : CleanupQuerySucceeds(w)
  \/ \E w \in Workers : CleanupRemove(w)
  \/ \E w \in Workers : CleanupUpdateSucceeds(w)
  \/ Tick

\* every read and write of the table succeeds; every call a worker awaits
\* returns and every sleep ends
ReliableSpec ==
  /\ Init
  /\ [][NextAnswered({})]_vars
  /\ \A w \in WorkerIds : WF_vars(AnsweredStep(w, {}))

\* the report whose terminal status writes the table rejects
StuckReport == 1

\* one worker and a queue of two reports requested at different times; the
\* terminal status writes of StuckReport fail, everything else the table is
\* asked succeeds, every call the worker awaits returns and every sleep ends
InitStuck ==
  /\ InitDeployment(LoopDeployment)
  /\ \A r, q \in Reports : rows[r].created_at = rows[q].created_at => r = q

StuckSpec ==
  /\ InitStuck
  /\ [][NextAnswered({StuckReport})]_vars
  /\ \A w \in WorkerIds : WF_vars(AnsweredStep(w, {StuckReport}))

\* ------------------------------------------------------------ the claims
Terminal == {"completed", "failed"}

\* the worker has marked its report processing and runs it through the pipeline
Running(w) == pc[w] \in {"generate", "upload", "mark_completed"}

LastWrite(w) == hist[w].writes[Len(hist[w].writes)]

\* the worker takes the step of the catch block of processJob
CatchStep(w) == pc[w] = "catch" /\ pc'[w] = "done"

\* C1: a pending report is claimed by exactly one worker: no two workers run
\* the same report through the pipeline.
C1_ExclusiveClaim ==
  \A w1, w2 \in Workers :
    (w1 # w2 /\ Running(w1) /\ Running(w2)) => report[w1] # report[w2]

\* C2: once the status of a report is completed or failed, no step changes it.
C2_StatusMonotonic ==
  [][\A r \in Reports :
       rows[r].status \in Terminal => rows'[r].status = rows[r].status]_vars

\* C3: the claim returns the pending report with the earliest created_at, and
\* that report is processing as soon as the claim has returned it.
C3_ClaimOldestAtomically ==
  [][\A w \in Workers :
       (pc[w] = "poll" /\ pc'[w] = "process") =>
         /\ report'[w] \in PendingReports
         /\ \A q \in PendingReports :
              rows[report'[w]].created_at <= rows[q].created_at
         /\ rows'[report'[w]].status = "processing"]_vars

\* C4: the only status transitions are pending -> processing, processing ->
\* completed and processing -> failed.
C4_StatusTransitions ==
  [][\A r \in Reports :
       rows'[r].status # rows[r].status =>
         <<rows[r].status, rows'[r].status>> \in
           {<<"pending", "processing">>, <<"processing", "completed">>,
            <<"processing", "failed">>}]_vars

\* C5: a report whose pptx_path is not null has status completed.
C5_PathOnlyWhenCompleted ==
  \A r \in Reports : rows[r].pptx_path # NULL => rows[r].status = "completed"

\* C6: a report whose error_message is not null has status failed.
C6_ErrorOnlyWhenFailed ==
  \A r \in Reports : rows[r].error_message # NULL => rows[r].status = "failed"

C8_ValidationMessageVerbatim ==
  [][\A w \in Workers :
       (CatchStep(w) /\ hist[w].validated # NULL /\ LastWrite(w)'.ok) =>
         rows'[report[w]].error_message = hist[w].validated]_vars

\* C9, as claimed: after a failure that is no ValidationError the report is
\* failed with the generic message.
C9_EndsFailedGeneric ==
  [][\A w \in Workers :
       (CatchStep(w) /\ caught[w].name # "ValidationError") =>
         /\ rows'[report[w]].status = "failed"
         /\ rows'[report[w]].error_message = GenericMsg]_vars

\* C9, amended: after a failure that is no ValidationError the run hands the
\* generic message, which holds no text of the error, to markJobFailed; the
\* report is failed with that message when the write succeeds and is left as it
\* was when the write fails.
C9_GenericFailure ==
  [][\A w \in Workers :
       (CatchStep(w) /\ caught[w].name # "ValidationError") =>
         LET wr == LastWrite(w)'
             r == report[w]
         IN  /\ wr.op = "failed"
             /\ wr.message = GenericMsg
             /\ ~Contains(wr.message, caught[w].message)
             /\ wr.ok => /\ rows'[r].status = "failed"
                         /\ rows'[r].error_message = GenericMsg
             /\ ~wr.ok => rows'[r] = rows[r]]_vars

C9_Witness ==
  \E w \in Workers :
    /\ pc[w] = "done"
    /\ hist[w].validated = NULL
    /\ hist[w].stages # <<>>
    /\ LastWrite(w) = Write("failed", GenericMsg, TRUE)
    /\ rows[report[w]].status = "failed"
    /\ rows[report[w]].error_message = GenericMsg

\* the steps of a run that come after the validation
AfterValidation ==
  {"summary", "candidates", "selection", "spec", "download", "captions",
   "slides", "lookahead", "closing", "pptx", "upload"}

\* the run of the worker met a rejection of the validation
ValidationRejected(w) == hist[w].validated # NULL

\* no step after the validation was invoked in the run of the worker
SkippedAfterValidation(w) ==
  \A i \in 1..Len(hist[w].stages) : hist[w].stages[i] \notin AfterValidation

\* C10, as claimed: when the validation fails every later stage is skipped and
\* the report ends failed.
C10_SkipsAndEndsFailed ==
  \A w \in Workers :
    (pc[w] = "done" /\ ValidationRejected(w)) =>
      SkippedAfterValidation(w) /\ rows[report[w]].status = "failed"

\* C10, amended: when the validation fails every later stage (summary, ranker,
\* captions, slides, assembly, upload) is invoked zero times and the run issues
\* markJobFailed as its only terminal write; the report is failed when that
\* write succeeds.
C10_SkipsAndMarksFailed ==
  [][\A w \in Workers :
       ValidationRejected(w)' =>
         /\ SkippedAfterValidation(w)'
         /\ pc'[w] \in {"catch", "done"}
         /\ pc'[w] = "catch" => hist'[w].writes = <<>>
         /\ pc'[w] = "done" =>
              /\ Len(hist'[w].writes) = 1
              /\ LastWrite(w)'.op = "failed"
         /\ (CatchStep(w) /\ LastWrite(w)'.ok) =>
              rows'[report[w]].status = "failed"]_vars

C10_Witness ==
  \E w \in Workers :
    /\ pc[w] = "done"
    /\ hist[w].validated = NotesMsg(2)
    /\ hist[w].stages = <<"notes", "images", "validation">>
    /\ LastWrite(w).ok
    /\ rows[report[w]].status = "failed"

\* C11: validateReportData returns valid exactly when there are at least 4
\* notes and at least 5 photos; otherwise it returns one error, the message of
\* the notes whenever there are fewer than 4 notes (also when the photos are
\* too few as well) and the message of the photos only when the notes suffice;
\* the counts it returns are the counts it was given.
C11_ValidateThresholds ==
  call.returned =>
    LET n == call.notesCount
        p == call.photosCount
        v == call.result
    IN  /\ v.valid <=> (n >= 4 /\ p >= 5)
        /\ v.valid => v.error = NULL
        /\ n < 4 =>
             /\ v.error = NotesMsg(n)
             /\ Contains(v.error, <<"Insufficient daily log data (found", ToString(n)>>)
             /\ ~Contains(v.error, <<"Insufficient photos (found">>)
        /\ (n >= 4 /\ p < 5) =>
             /\ v.error = PhotosMsg(p)
             /\ Contains(v.error, <<"Insufficient photos (found", ToString(p)>>)
             /\ ~Contains(v.error, <<"Insufficient daily log data (found">>)
        /\ v.notesCount = n
        /\ v.photosCount = p

C11_Witness ==
  /\ call.returned
  /\ call.notesCount = 3
  /\ call.photosCount = 4
  /\ ~call.result.valid
  /\ call.result.error = NotesMsg(3)

\* the worker holds a report whose job has no procore_project_id
HoldsUnlinked(w) == report[w] # NoReport /\ ~linked[report[w]]

MarkCompletedStep(w) == pc[w] = "mark_completed" /\ pc'[w] # "mark_completed"

\* C13: markJobCompleted on a report that is not processing throws and leaves
\* the row of the report (status, pptx_path, timestamps) as it was.
C13_MarkCompletedRequiresProcessing ==
  [][\A w \in Workers :
       (MarkCompletedStep(w) /\ rows[report[w]].status # "processing") =>
         /\ pc'[w] = "catch"
         /\ rows'[report[w]] = rows[report[w]]]_vars

\* the worker takes a step that calls markJobFailed: the not-linked path of
\* processJob, or its catch block
MarkFailedStep(w) == pc[w] \in {"process", "catch"} /\ pc'[w] = "done"

\* C14: markJobFailed does not throw; when its write fails the call returns
\* and the report stays processing.
C14_FailedWriteLeavesProcessing ==
  [][\A w \in Workers :
       (MarkFailedStep(w) /\ ~LastWrite(w)'.ok) =>
         /\ caught'[w] = NoError
         /\ rows'[report[w]].status = "processing"]_vars

\* the step makes the report completed, or gives it a pptx_path
BecomesCompleted(r) ==
  \/ rows'[r].status = "completed" /\ rows[r].status # "completed"
  \/ rows'[r].pptx_path # NULL /\ rows'[r].pptx_path # rows[r].pptx_path

\* C15: a report becomes completed only by the markJobCompleted of a run whose
\* last step, uploadToStorage, has succeeded, and the pptx_path written is the
\* storage path that upload returned: reports/<report id>/<filename>.
C15_CompletedAfterUpload ==
  [][\A r \in Reports :
       BecomesCompleted(r) =>
         \E w \in Workers :
           /\ MarkCompletedStep(w)
           /\ report[w] = r
           /\ hist[w].stages # <<>>
           /\ hist[w].stages[Len(hist[w].stages)] = "upload"
           /\ hist[w].uploaded = <<"reports", ToString(r), PptxFilename>>
           /\ rows'[r].status = "completed"
           /\ rows'[r].pptx_path = hist[w].uploaded]_vars

C15_Witness ==
  \E w \in Workers :
    /\ pc[w] = "done"
    /\ hist[w].uploaded # NULL
    /\ LastWrite(w) = Write("completed", hist[w].uploaded, TRUE)
    /\ rows[report[w]].status = "completed"
    /\ rows[report[w]].pptx_path = hist[w].uploaded
    /\ hist[w].uploaded \in storage

\* where a worker stands while processJob runs
JobPcs == {"process", "generate", "upload", "mark_completed", "catch", "done"}

\* C16: a worker is strictly sequential.  It takes a report from a poll only
\* when it holds none; it keeps the report it holds until processJob has
\* returned; and processJob returns only after a terminal status write has
\* been attempted.
C16_StrictlySequential ==
  [][\A w \in Workers :
       /\ (pc'[w] = "process" /\ pc[w] # "process") =>
            /\ pc[w] = "poll"
            /\ report[w] = NoReport
            /\ hist[w] = NoHist
       /\ report'[w] # report[w] =>
            \/ report[w] = NoReport /\ pc[w] = "poll"
            \/ report'[w] = NoReport /\ pc[w] = "done"
       /\ (pc[w] \in JobPcs /\ pc'[w] \notin JobPcs) =>
            /\ pc[w] = "done"
            /\ hist[w].writes # <<>>
            /\ LastWrite(w).op \in Terminal
       /\ pc[w] \in JobPcs => report[w] # NoReport
       /\ pc[w] \notin JobPcs => report[w] = NoReport]_vars

C16_Witness ==
  /\ Workers = {1}
  /\ pc[1] = "process"
  /\ hist[1] = NoHist
  /\ \E r \in Reports : r # report[1] /\ rows[r].status \in Terminal

\* the worker is at the poll of its loop
AtPoll(w) == w \in Workers /\ pc[w] = "poll"

\* C17: whatever fails in an iteration of the loop (the poll, the pipeline, a
\* status write, the cleanup), the loop of the worker goes on: every worker of
\* the deployment is at its poll again and again, so from any point of an
\* iteration, failed or not, it reaches its next poll.
C17_LoopContinues ==
  \A w \in WorkerIds : []<>(w \in Workers => AtPoll(w))

C17_Witness ==
  \E w \in Workers :
    /\ pc[w] = "done"
    /\ Len(hist[w].writes) = 2
    /\ ~hist[w].writes[1].ok
    /\ ~hist[w].writes[2].ok

\* the worker is in an iteration of its loop, before the cleanup check, and
\* more than the cleanup interval has passed since its last cleanup
SweepDue(w) ==
  /\ w \in Workers
  /\ pc[w] \in {"poll"} \cup JobPcs
  /\ now - lastCleanup[w] > CLEANUP_INTERVAL_HOURS

\* C18: an iteration of the loop in which more than the cleanup interval has
\* passed since the last cleanup ends in cleanupExpiredReports: at once when
\* processJob returns, whether the job was completed or failed, and when the
\* poll found no job.  A due cleanup stops being due only by the worker
\* entering cleanupExpiredReports, and it never stays due for ever.
C18_SweepWhenDue ==
  /\ [][\A w \in Workers :
          (SweepDue(w) /\ pc[w] = "done" /\ pc'[w] # "done") =>
            /\ pc'[w] = "cleanup_query"
            /\ lastCleanup'[w] = now]_vars
  /\ [][\A w \in Workers :
          (SweepDue(w) /\ pc[w] = "poll" /\ pc'[w] # "poll") =>
            pc'[w] \in {"process", "cleanup_query"}]_vars
  /\ [][\A w \in Workers :
          (SweepDue(w) /\ ~SweepDue(w)') =>
            /\ pc'[w] = "cleanup_query"
            /\ lastCleanup'[w] = now]_vars
  /\ \A w \in WorkerIds : []<>(~SweepDue(w))

C18_Witness ==
  \E w \in Workers :
    /\ pc[w] = "cleanup_query"
    /\ lastCleanup[w] = now
    /\ now > StartTime
    /\ \E r \in Reports : rows[r].status = "failed"
    /\ \E r \in Reports : rows[r].status = "completed"

\* where a worker stands while cleanupExpiredReports runs
CleanupPcs == {"cleanup_query", "cleanup_remove", "cleanup_update"}

\* the expiry date of the cleanup the worker runs, or ran last
Cutoff(w) == lastCleanup[w] - ExpiryHours

\* the completed reports with a pptx_path whose completed_at is strictly
\* earlier than the expiry date
StrictlyOlder(cutoff) ==
  {r \in Reports : /\ rows[r].status = "completed"
                   /\ rows[r].pptx_path # NULL
                   /\ rows[r].completed_at < cutoff}

\* C19, as claimed: when a cleanup has run, the completed reports it has
\* purged (pptx_path cleared) are exactly those whose completed_at is strictly
\* earlier than its expiry date.
C19_PurgedIffExpired ==
  \A w \in Workers :
    (pc[w] \notin CleanupPcs /\ lastCleanup[w] # 0) =>
      \A r \in Reports :
        rows[r].status = "completed" =>
          (rows[r].pptx_path = NULL <=> rows[r].completed_at < Cutoff(w))

\* C19, amended: a cleanup whose query succeeds takes up for purging exactly
\* the completed reports with a pptx_path whose completed_at is strictly
\* earlier than its expiry date (a report completed on the expiry date is not
\* taken, one completed a time unit earlier is); it removes the file and
\* clears the pptx_path of none but the reports it took up.
C19_SweepsStrictlyOlder ==
  [][/\ \A w \in Workers :
          (pc[w] = "cleanup_query" /\ pc'[w] # "cleanup_query") =>
            expired'[w].left \in
              {{}, {[id |-> r, pptx_path |-> rows[r].pptx_path] :
                      r \in StrictlyOlder(Cutoff(w))}}
     /\ \A r \in Reports :
          (rows[r].pptx_path # NULL /\ rows'[r].pptx_path = NULL) =>
            \E w \in Workers :
              /\ pc[w] = "cleanup_update"
              /\ expired[w].cur = r
              /\ Workers = {w} =>
                   /\ rows[r].status = "completed"
                   /\ rows[r].completed_at < Cutoff(w)
     /\ \A path \in storage \ storage' :
          \E w \in Workers :
            /\ pc[w] = "cleanup_remove"
            /\ \E e \in expired[w].left :
                 /\ e.pptx_path = path
                 /\ Workers = {w} =>
                      /\ rows[e.id].pptx_path = path
                      /\ rows[e.id].completed_at < Cutoff(w)]_vars

C19_Witness ==
  /\ Workers = {1}
  /\ pc[1] = "poll"
  /\ lastCleanup[1] = SweepNow
  /\ rows[1] = ClearPathRow(CompletedRow(1, SweepCutoff - 1), SweepNow)
  /\ rows[2] = CompletedRow(2, SweepCutoff)
  /\ storage = {StoragePath(2, PptxFilename)}

\* the step clears the pptx_path of the report
PathCleared(r) == rows[r].pptx_path # NULL /\ rows'[r].pptx_path = NULL

\* C20: the pptx_path of a report is cleared only by a cleanup that holds the
\* report in hand after storage.remove has deleted the file of that report: a
\* cleanup whose deletion failed, or was not attempted, does not clear it.
C20_ClearedAfterDeletion ==
  [][\A r \in Reports :
       PathCleared(r) =>
         \E w \in Workers :
           /\ pc[w] = "cleanup_update"
           /\ expired[w].cur = r
           /\ expired[w].removed # NULL
           /\ expired[w].removed = rows[r].pptx_path
           /\ rows'[r].status = rows[r].status]_vars

C20_Witness ==
  \E r \in Reports :
    /\ rows[r].status = "completed"
    /\ rows[r].pptx_path = NULL
    /\ rows[r].updated_at > rows[r].completed_at
    /\ StoragePath(r, PptxFilename) \notin storage

\* ------------------------------------------- claims on the candidate selector
\* the days from the first of January 2025 to the first of the month
RECURSIVE MonthStart(_, _)
MonthStart(year, month) ==
  IF month = 1 THEN (year - 2025) * 365
  ELSE MonthStart(year, month - 1) + DaysInMonth(year, month - 1)

\* the number of the calendar day a date names
DayNumber(date) == MonthStart(date[1], date[2]) + date[3]

\* the image has a date, and it is a suggested day or the day before or
\* after one
OnSuggestedDays(img, photoDays) ==
  /\ getImageDate(img) # NULL
  /\ \E i \in DOMAIN photoDays :
       LET gap == DayNumber(getImageDate(img)) - DayNumber(photoDays[i].date)
       IN gap \in {-1, 0, 1}

\* the ids of the images of the pool on the suggested days and their neighbours
Matching ==
  {call.images[i].id : i \in {j \in DOMAIN call.images :
                                 OnSuggestedDays(call.images[j], call.photoDays)}}

Result == call.selection.result

\* C24: the result of the candidate selector has at most maxCandidates
\* images, and exactly maxCandidates when at least maxCandidates images of the
\* pool are on suggested days or their neighbours.
C24_Cap ==
  call.returned =>
    /\ Len(Result) <= call.maxCandidates
    /\ Cardinality(Matching) >= call.maxCandidates =>
         Len(Result) = call.maxCandidates

\* what pass 2 orders by: described images first, then the larger size, a
\* missing size being 0
FillsBefore(a, b) ==
  LET described(img) == img.description # NULL /\ img.description # <<" ">>
      bytes(img) == IF img.size = NoSize THEN 0 ELSE img.size
  IN \/ described(a) /\ ~described(b)
     \/ described(a) = described(b) /\ bytes(a) > bytes(b)

\* the smaller of two numbers
Least(a, b) == IF a < b THEN a ELSE b

\* C25: when pass 1 selects fewer than minCandidates images, pass 2 appends
\* images not yet selected, described ones first and then by larger size, and
\* stops when the selected count reaches minCandidates or maxCandidates,
\* whichever comes first: it never appends beyond minCandidates.
C25_FillStopsAtMin ==
  call.returned /\ Len(call.selection.first) < call.minCandidates =>
    LET first == call.selection.first
        fill == call.selection.fill
        left == {i \in DOMAIN call.images : call.images[i].id \notin Ids(first)}
        room == Least(call.minCandidates, call.maxCandidates) - Len(first)
    IN /\ Ids(fill) \cap Ids(first) = {}
       /\ \A i, j \in DOMAIN fill : i < j => ~FillsBefore(fill[j], fill[i])
       /\ \A i \in left, j \in DOMAIN fill :
            call.images[i].id \notin Ids(fill) => ~FillsBefore(call.images[i], fill[j])
       /\ Len(first) + Len(fill) <= call.minCandidates
       /\ Len(fill) = IF room < 0 THEN 0 ELSE Least(room, Cardinality(left))

\* C26: when pass 1 yields at least minCandidates images and the cap is not
\* reached, the result holds exactly the images of the pool whose date is a
\* suggested day, the day before one or the day after one.
C26_ExactlySuggestedDays ==
  /\ call.returned
  /\ Len(call.selection.first) >= call.minCandidates
  /\ Len(Result) < call.maxCandidates
  => /\ Ids(Result) = Matching
     /\ Len(Result) = Cardinality(Matching)

\* a suggestion on the first of a month has taken the image of the day before
\* and left an image two days behind it out
C26_Witness ==
  /\ call.returned
  /\ Len(call.selection.first) >= call.minCandidates
  /\ Len(Result) < call.maxCandidates
  /\ \E i \in DOMAIN Result, d \in DOMAIN call.photoDays :
       /\ call.photoDays[d].date[3] = 1
       /\ DayNumber(getImageDate(Result[i])) = DayNumber(call.photoDays[d].date) - 1
  /\ \E i \in DOMAIN call.images :
       /\ getImageDate(call.images[i]) # NULL
       /\ call.images[i].id \notin Ids(Result)

\* C27: an image whose date cannot be determined never is in the result.
C27_UndatedExcluded ==
  call.returned =>
    \A i \in DOMAIN Result :
      Len(Result[i].log_date) >= DateLen \/ Len(Result[i].created_at) >= DateLen

\* C28: the result is in the order of the dates, and images of one date are in
\* the order of their ids.
C28_OrderedByDateThenId ==
  call.returned =>
    \A i, j \in DOMAIN Result :
      i < j =>
        LET a == getImageDate(Result[i])
            b == getImageDate(Result[j])
        IN /\ a # NULL /\ b # NULL => DayNumber(a) <= DayNumber(b)
           /\ a = b => Result[i].id < Result[j].id

\* both passes have contributed, and the result differs from the order of
\* selection in two images of one date
C28_Witness ==
  /\ call.returned
  /\ call.selection.first # <<>>
  /\ call.selection.fill # <<>>
  /\ Result # call.selection.first \o call.selection.fill
  /\ \E i, j \in DOMAIN call.images :
       /\ i < j
       /\ call.images[i].id > call.images[j].id
       /\ getImageDate(call.images[i]) = getImageDate(call.images[j])
       /\ {call.images[i].id, call.images[j].id} \subseteq Ids(Result)

\* ------------------------------------------------- claims on the stage order
\* the stages of a run as the specification names them
NamedStages ==
  <<"fetch-notes", "fetch-images", "validate", "summarize", "select-candidates",
    "select-final-images", "download-images", "generate-captions",
    "render-slides", "assemble-artifact", "upload-artifact">>

\* the named stage a step of the run belongs to: the report spec is built at
\* the end of the selection, and the lookahead and closing slides are slides
StageOf(step) ==
  CASE step = "notes" -> "fetch-notes"
    [] step = "images" -> "fetch-images"
    [] step = "validation" -> "validate"
    [] step = "summary" -> "summarize"
    [] step = "candidates" -> "select-candidates"
    [] step \in {"selection", "spec"} -> "select-final-images"
    [] step = "download" -> "download-images"
    [] step = "captions" -> "generate-captions"
    [] step \in {"slides", "lookahead", "closing"} -> "render-slides"
    [] step = "pptx" -> "assemble-artifact"
    [] step = "upload" -> "upload-artifact"

\* the named stages of the steps, each as often as it was entered
RECURSIVE Invoked(_)
Invoked(steps) ==
  IF steps = <<>> THEN <<>>
  ELSE IF Len(steps) > 1 /\ StageOf(steps[Len(steps) - 1]) = StageOf(steps[Len(steps)])
    THEN Invoked(SubSeq(steps, 1, Len(steps) - 1))
  ELSE Append(Invoked(SubSeq(steps, 1, Len(steps) - 1)), StageOf(steps[Len(steps)]))

\* the step whose failure the catch block of processJob holds, "" if none
ThrownIn(w) ==
  IF caught[w].name = "ValidationError" THEN "validation"
  ELSE IF Contains(caught[w].message, <<"Failed to upload to storage:">>) THEN "upload"
  ELSE IF \E s \in ThrowingStages : Contains(caught[w].message, CollaboratorErrorText(s))
    THEN CHOOSE s \in ThrowingStages : Contains(caught[w].message, CollaboratorErrorText(s))
  ELSE ""

\* C30: in every run the named stages are invoked in their fixed order, each
\* after its predecessor has returned and none twice, and a stage that throws
\* is the last stage of the run.
C30_StagesInOrder ==
  /\ [](\A w \in Workers :
          LET stages == Invoked(hist[w].stages) IN
          /\ Len(stages) <= Len(NamedStages)
          /\ stages = SubSeq(NamedStages, 1, Len(stages))
          /\ pc[w] = "upload" => Len(stages) = Len(NamedStages) - 1
          /\ pc[w] = "mark_completed" => stages = NamedStages
          /\ pc[w] = "catch" /\ ThrownIn(w) # "" =>
               hist[w].stages[Len(hist[w].stages)] = ThrownIn(w))
  /\ [][\A w \in Workers :
          pc[w] \in {"catch", "done"} =>
            hist'[w].stages \in {hist[w].stages, <<>>}]_vars

\* the rendering of the slides has thrown after the nine stages before it
C30_Witness ==
  \E w \in Workers :
    /\ pc[w] = "catch"
    /\ ThrownIn(w) = "closing"
    /\ Invoked(hist[w].stages) = SubSeq(NamedStages, 1, 9)

\* ------------------------------------------------- claims on the cleanup
\* worker w takes a step of cleanupExpiredReports
SweeperStep(w) == pc[w] \in CleanupPcs /\ expired'[w] # expired[w]

\* C22: the cleanup only writes pptx_path (to null) and updated_at, and only
\* on a report that is completed when it is written: it changes no status, no
\* error_message and no completed_at, and writes no pending or processing
\* report, whatever the other workers do meanwhile.
C22_SweeperWritesCompletedOnly ==
  [][\A w \in Workers :
       SweeperStep(w) =>
         \/ rows' = rows
         \/ /\ pc[w] = "cleanup_update"
            /\ rows[expired[w].cur].status = "completed"
            /\ rows' = [rows EXCEPT ![expired[w].cur].pptx_path = NULL,
                                    ![expired[w].cur].updated_at = now]]_vars

\* the ids of the reports a cleanup still has to take up
LeftIds(sweep) == {e.id : e \in sweep.left}

\* the remove of worker w fails for the report it took up
DeletionFails(w) ==
  pc[w] = "cleanup_remove" /\ expired'[w].failed # expired[w].failed

\* a deletion that fails leaves the report as it is and the cleanup goes on
\* with the reports left; a report leaves those only by being taken up
SweepGoesOn(w) ==
  /\ DeletionFails(w) =>
       /\ rows' = rows /\ storage' = storage
       /\ \E e \in expired[w].left :
            /\ expired'[w].left = expired[w].left \ {e}
            /\ expired'[w].failed = expired[w].failed \cup {e.id}
       /\ pc'[w] = IF expired'[w].left = {} THEN "poll" ELSE "cleanup_remove"
  /\ pc[w] \in {"cleanup_remove", "cleanup_update"} =>
       /\ expired'[w].left \subseteq expired[w].left
       /\ expired'[w].left # expired[w].left =>
            /\ pc[w] = "cleanup_remove"
            /\ Cardinality(expired[w].left \ expired'[w].left) = 1
       /\ pc'[w] \notin CleanupPcs => expired'[w].left = {}

\* C21: a deletion that fails for one report does not end the cleanup: the
\* other reports the query returned are still taken up, and the report keeps
\* its pptx_path and is selected again by the next cleanup.
C21_FailedDeletionRetried ==
  [][\A w \in Workers :
       /\ SweepGoesOn(w)
       /\ DeletionFails(w) =>
            \A r \in expired'[w].failed : rows'[r].pptx_path # NULL
       /\ (pc[w] = "cleanup_query" /\ pc'[w] # "cleanup_query") =>
            expired[w].failed \subseteq LeftIds(expired'[w])]_vars

\* C21, amended: the deletion that fails leaves the row of the report as it
\* is, and the next cleanup selects the report again unless its query fails or
\* the report has been purged or rewritten meanwhile.
C21_FailedDeletionRetriedAfterQuery ==
  [][\A w \in Workers :
       /\ SweepGoesOn(w)
       /\ (pc[w] = "cleanup_query" /\ pc'[w] # "cleanup_query") =>
            \/ expired'[w].left = {}
            \/ \A r \in expired[w].failed :
                 r \in StrictlyOlder(Cutoff(w)) => r \in LeftIds(expired'[w])]_vars

\* the deletion failed for one of two expired reports, the cleanup went on and
\* purged the other, and the next cleanup is about to select
C21_Witness ==
  \E w \in Workers, r \in Reports :
    /\ pc[w] = "cleanup_query"
    /\ ticks > 0
    /\ expired[w].failed = {r}
    /\ rows[r].pptx_path \in storage
    /\ r \in StrictlyOlder(Cutoff(w))
    /\ \E q \in Reports : /\ q # r
                          /\ rows[q].status = "completed"
                          /\ rows[q].pptx_path = NULL
                          /\ rows[q].updated_at = SweepNow

\* the reports a deployment may hold
ReportIds == UNION {1..d.reports : d \in Deployments}

\* the report is completed, has its file, and its retention has run out
Expired(r) ==
  /\ r \in Reports
  /\ rows[r].status = "completed"
  /\ rows[r].pptx_path # NULL
  /\ rows[r].completed_at < now - ExpiryHours

\* the file of the report is deleted and its pptx_path is cleared
Purged(r) ==
  /\ r \in Reports
  /\ rows[r].pptx_path = NULL
  /\ StoragePath(r, PptxFilename) \notin storage

\* C23: every completed report whose completed_at lies further back than the
\* retention has its file deleted and its pptx_path cleared in the end, as
\* long as the loops run and the calls of the cleanup do not fail for ever;
\* the row of the report is never deleted.
C23_BoundedRetention ==
  /\ \A r \in ReportIds : Expired(r) ~> Purged(r)
  /\ [][DOMAIN rows' = DOMAIN rows]_vars

\* ------------------------------------------- claims on generateReport's caller
\* what generateReport would have done for the call under way, had the caller
\* passed no onProgress
QuietOutcome == generateReportWith([call.env EXCEPT !.sink = NoOpSink])

\* C31: the progress sink never affects control flow: whatever the sink the
\* caller passed does (a sink that throws included), the steps executed, the
\* success or failure of the run and the final status of the job are those of
\* the run with a no-op sink.
C31_SinkNeverAffectsControlFlow ==
  call.returned =>
    /\ call.out.trace = QuietOutcome.trace
    /\ call.out.rejected = QuietOutcome.rejected
    /\ call.out.result.success = QuietOutcome.result.success
    /\ FinalStatus(call.out) = FinalStatus(QuietOutcome)

\* what generateReport would have done for the call under way, had
\* getMostRecentLookahead resolved to a lookahead
FetchedOutcome == generateReportWith([call.env EXCEPT !.fetch = "found"])

\* the slides of a report: the summary slide, the photo slides, the lookahead
\* slide and the closing slide, in this order
LookaheadPlaced(slides) ==
  /\ Len(slides) >= 3
  /\ slides[Len(slides)].type = "closing"
  /\ slides[Len(slides) - 1].type = "lookahead"
  /\ slides[1].type = "summary"
  /\ \A i \in 2..(Len(slides) - 2) : slides[i].type = "photo"

\* C35: a lookahead fetch that fails or finds nothing never fails the
\* pipeline: the outcome of the run is that of the run whose fetch succeeds,
\* and a run that succeeds has made the lookahead slide, with the placeholder
\* message, after the photo slides and before the closing slide.
C35_LookaheadFetchNeverFails ==
  (call.returned /\ call.env.fetch # "found") =>
    /\ call.out.rejected = FetchedOutcome.rejected
    /\ call.out.result = FetchedOutcome.result
    /\ call.out.result.success =>
         /\ LookaheadPlaced(call.out.slides)
         /\ call.out.slides[Len(call.out.slides) - 1] = Placeholder

\* ------------------------------------------- claims on the final selection
\* the numbers in the answer of the model
Answered ==
  {call.reply.ids[i].value :
     i \in {j \in DOMAIN call.reply.ids : call.reply.ids[j].number}}

\* C32: every image id in the final selection the ranker stage passes on is
\* the id of one of the candidates given to the ranker; the ids of the answer
\* that are not ids of candidates are dropped.
C32_OnlyCandidateIds ==
  call.returned =>
    \A i \in DOMAIN call.ranking.selectedIds :
      call.ranking.selectedIds[i] \in Ids(call.ranking.candidates)

\* the answer named a candidate and an image of the month that is no
\* candidate, and the selection passed on is not empty
C32_Witness ==
  /\ call.returned
  /\ call.ranking.selectedIds # <<>>
  /\ \E n \in Answered :
       /\ n \notin Ids(call.ranking.candidates)
       /\ n \in Ids(call.images)

\* C40: reportSpec.images has at most maxSelectedImages images and no image
\* twice, whatever ids the ranker answers with.
C40_AtMostMaxSelectedOnce ==
  call.returned =>
    /\ Len(call.ranking.images) <= call.maxSelectedImages
    /\ \A i, j \in DOMAIN call.ranking.images :
         call.ranking.images[i].id = call.ranking.images[j].id => i = j

\* ------------------------------------------- claims on the suggestions
\* a suggestion that has a priority
HasPriority(day) == day.priority # NoPriority

\* day a is to be processed no later than day b: by ascending priority, a day
\* without a priority after every day that has one, and by ascending date
\* among days of the same priority or without one
InOrder(a, b) ==
  IF HasPriority(a) /\ HasPriority(b)
  THEN \/ a.priority < b.priority
       \/ a.priority = b.priority /\ ~TextBefore(b.date, a.date)
  ELSE IF HasPriority(a) # HasPriority(b) THEN HasPriority(a)
  ELSE ~TextBefore(b.date, a.date)

\* C34: the suggestions are processed in ascending priority order, every
\* suggestion without a priority after every suggestion that has one
\* (whatever the priority), ties broken by ascending date.
C34_PriorityThenDate ==
  call.returned =>
    \A i, j \in DOMAIN call.selection.days :
      i < j => InOrder(call.selection.days[i], call.selection.days[j])

\* C39: the result holds only images of the pool and no image id twice, also
\* when the windows of the suggestions overlap or a day is listed twice.
C39_PoolImagesOnce ==
  call.returned =>
    /\ \A i \in DOMAIN Result : \E k \in DOMAIN call.images : Result[i] = call.images[k]
    /\ \A i, j \in DOMAIN Result : Result[i].id = Result[j].id => i = j

\* a day is listed twice, pass 1 came by an image of that day each time, and
\* the image is in the result
C39_Witness ==
  /\ call.returned
  /\ Len(call.photoDays) >= 2
  /\ call.photoDays[1].date = call.photoDays[2].date
  /\ \E i \in DOMAIN Result : getImageDate(Result[i]) = call.photoDays[1].date

\* ------------------------------------------- claims on the status type
\* supabaseClient: the status enum of owner_reports
OwnerReportStatus == {"pending", "processing", "ready", "error"}

\* C33: every status the worker writes to an owner_reports row is a value of
\* the declared status type, ready at the end of a run that succeeded and
\* error at the end of a run that failed.
C33_DeclaredStatusOnly ==
  /\ \A r \in Reports : rows[r].status \in OwnerReportStatus
  /\ \A w \in Workers : \A i \in DOMAIN hist[w].writes :
       hist[w].writes[i].op \in OwnerReportStatus

\* ------------------------------------------- claims on the stored artifact
\* C38: in every reachable state the file of a completed report with a
\* non-null pptx_path is in the bucket at that path: no uploads, cleanups and
\* failed writes leave a pptx_path that points at a deleted file.
C38_ArtifactPresent ==
  \A r \in Reports :
    (rows[r].status = "completed" /\ rows[r].pptx_path # NULL) =>
      rows[r].pptx_path \in storage

\* ------------------------------------------- claims on the queue
\* a worker has the report from its poll and processJob runs on it
Claimed(r) == \E w \in Workers : report[w] = r /\ pc[w] \in JobPcs

Pending(r) == r \in Reports /\ rows[r].status = "pending"

Ended(r) == r \in Reports /\ rows[r].status \in Terminal

\* C36: when every read and write of the table succeeds, every run of the
\* pipeline ends and the loops of the workers go on, every pending report is
\* claimed in the end and is completed or failed in the end: a pending report
\* comes to be completed or failed, and a report leaves pending only in the
\* hands of a worker that has claimed it.
C36_PendingIsProcessed ==
  /\ \A r \in ReportIds : Pending(r) ~> Ended(r)
  /\ [][\A r \in Reports :
          (Pending(r) /\ rows'[r].status # "pending") => Claimed(r)]_vars

\* the queue of two reports has been worked off: the worker has its second
\* report in hand, completed or failed, and the first one is completed or
\* failed too
C36_Witness ==
  /\ Workers = {1}
  /\ pc[1] = "done"
  /\ \A r \in Reports : rows[r].status \in Terminal
  /\ \E r \in Reports : r # report[1]

\* C37: a report whose terminal status write fails does not keep the other
\* reports waiting: every other pending report is claimed in a later poll.
C37_NoHeadOfLineBlocking ==
  \A r \in ReportIds \ {StuckReport} : Pending(r) ~> Claimed(r)

====
